---- MODULE Spec2Model ----
(***************************************************************************)
(* Model of @grexie/web3-react: the BatchRequestQueue of useWeb3.tsx, the  *)
(* Web3Provider effect that hands it the executor, the useWeb3Query        *)
(* controller and the useWeb3MultiQuery combinator.                        *)
(*                                                                         *)
(* JavaScript runs one callback at a time, so every action below is one    *)
(* whole callback (a render commit with its effects, a setImmediate        *)
(* callback, a call's completion callback with the continuation of the     *)
(* awaiting async function, a timer).                                      *)
(***************************************************************************)
EXTENDS Integers, Sequences, FiniteSets, TLC

\* ---------------------------------------------------------------- bounds
MaxAdds == 3          \* direct request(call) calls made in SpecQueue / SpecQueueApi
MaxArgs == 2          \* distinct argument lists a call site is rendered with
MaxAttempts == 2      \* refetch() invocations of one controller
NQueries == 3         \* constituents handed to useWeb3MultiQuery

\* ------------------------------------------------------- program constants
DefaultRetries == 5   \* refetch's default `retries = 5`
Undefined == 0        \* JavaScript undefined (useState() with no initial value)
NoBatchRequest == 0   \* PrivateTable entry has no BatchRequest field yet
NoWeb3 == 0           \* useState<Web3 | null>(null)
NoImmediate == 0      \* PrivateTable entry has no immediate field yet
NoAttempt == 0        \* a descriptor passed to context.request by another caller
CallError == 1        \* the Error an executor hands to a call's callback

\* Web3 instances (web3.BatchRequest is identified by its instance): the ones the
\* provider goes through with a call site mounted, and with the queue alone.
Web3s == {1}
QueueWeb3s == {1, 2}
ArgVals == 1..MaxArgs

VARIABLES
  \* BatchRequestQueue: the PrivateTable entry and the event loop's immediates
  queue,          \* _.queue
  BatchRequest,   \* _.BatchRequest
  immediate,      \* _.immediate, the handle of the last setImmediate
  timers,         \* handles of the setImmediate callbacks scheduled and not yet run
  batches,        \* batches executed, each [ex, methods]; a method leaves when its callback is called
  enqueued,       \* history: descriptors passed directly to context.request, in order
  \* Web3Provider
  web3,
  \* useWeb3Query (one call site)
  mounted,        \* "no", "yes", "gone"
  args, skip, contract,
  value, loading, firstLoad, error,
  attempts,       \* one record per refetch() invocation
  \* useWeb3MultiQuery
  queries, multi

qvars == <<queue, BatchRequest, immediate, timers, batches, enqueued>>
cvars == <<mounted, args, skip, contract, value, loading, firstLoad, error, attempts>>
mvars == <<queries, multi>>
vars == <<queue, BatchRequest, immediate, timers, batches, enqueued, web3,
          mounted, args, skip, contract, value, loading, firstLoad, error, attempts,
          queries, multi>>

\* ------------------------------------------------------ BatchRequestQueue
\* The queue's state as one value, so that several calls made in one callback compose.
QS ==
  [queue |-> queue, BatchRequest |-> BatchRequest, immediate |-> immediate, timers |-> timers]

\* setImmediate returns a handle no scheduled immediate has. (The handle of an
\* immediate that has run or was cleared is dead: clearImmediate ignores it, so the
\* model hands the number out again.)
NewHandle(s) ==
  CHOOSE h \in 1..(Cardinality(s.timers) + 1) :
    /\ h \notin s.timers
    /\ \A k \in 1..(h - 1) : k \in s.timers

\* clearImmediate(_.immediate): the immediate with that handle, if still scheduled, is dropped.
clearImmediate(s) ==
  [s EXCEPT !.timers = @ \ {s.immediate}]

\* _.immediate = setImmediate(flush)
setImmediate(s) ==
  [s EXCEPT !.timers = @ \cup {NewHandle(s)}, !.immediate = NewHandle(s)]

\* process() without its clearImmediate.
processNoClear(s) ==
  IF s.BatchRequest = NoBatchRequest THEN s
  ELSE setImmediate(s)

\* process() scheduling even when no BatchRequest is set.
processNoGuard(s) ==
  setImmediate(clearImmediate(s))

\* process(): return when there is no BatchRequest; otherwise clearImmediate(_.immediate)
\* and _.immediate = setImmediate(flush).
process(s) ==
  IF s.BatchRequest = NoBatchRequest THEN s
  ELSE setImmediate(clearImmediate(s))

\* add(method) pushing without calling process().
addNoProcess(s, method) ==
  [s EXCEPT !.queue = Append(@, method)]

\* add(method): queue.push(method); this.process()
add(s, method) ==
  process([s EXCEPT !.queue = Append(@, method)])

\* The setter starting the new executor with an empty queue.
setBatchRequestDropping(s, v) ==
  process([s EXCEPT !.BatchRequest = v, !.queue = <<>>])

\* set BatchRequest(value): store it; this.process()
setBatchRequest(s, v) ==
  process([s EXCEPT !.BatchRequest = v])

Commit(s) ==
  /\ queue' = s.queue
  /\ BatchRequest' = s.BatchRequest
  /\ immediate' = s.immediate
  /\ timers' = s.timers

\* The batch with each method's callback attached to its neighbour's call.
flushCrossed(ex, methods) ==
  [ex |-> ex,
   methods |-> [i \in 1..Len(methods) |->
                  [methods[i] EXCEPT !.att = methods[(i % Len(methods)) + 1].att]]]

\* The batch with the methods added in reverse order.
flushReversed(ex, methods) ==
  [ex |-> ex, methods |-> [i \in 1..Len(methods) |-> methods[Len(methods) + 1 - i]]]

\* The batch the flush callback builds: new _.BatchRequest(), batch.add(method) for each
\* method of the spliced queue in order, batch.execute().
flushBatch(ex, methods) ==
  [ex |-> ex, methods |-> methods]

\* The setImmediate callback of process(), run by the event loop in a later turn.
\* methods = _.queue.splice(0, _.queue.length) empties the queue first; nothing more
\* happens for an empty splice; `new _.BatchRequest()` throws a TypeError when the
\* field is undefined at that moment, after the splice, so no batch is executed.
Flush(h) ==
  /\ h \in timers
  /\ timers' = timers \ {h}
  /\ queue' = <<>>
  /\ batches' = IF queue = <<>> \/ BatchRequest = NoBatchRequest
                THEN batches
                ELSE Append(batches, flushBatch(BatchRequest, queue))
  /\ UNCHANGED <<BatchRequest, immediate, enqueued, web3>>
  /\ UNCHANGED cvars
  /\ UNCHANGED mvars

\* context.request(call) called directly by a component (useWeb3().request).
Request(a) ==
  /\ Len(enqueued) < MaxAdds
  /\ LET d == [att |-> NoAttempt, seq |-> Len(enqueued) + 1, args |-> a] IN
       /\ Commit(add(QS, d))
       /\ enqueued' = Append(enqueued, d)
  /\ UNCHANGED <<batches, web3>>
  /\ UNCHANGED cvars
  /\ UNCHANGED mvars

\* The setter called with any value, undefined included (the class's interface).
SetBatchRequest(v) ==
  /\ Commit(setBatchRequest(QS, v))
  /\ UNCHANGED <<batches, enqueued, web3>>
  /\ UNCHANGED cvars
  /\ UNCHANGED mvars

\* ------------------------------------------------------------ useWeb3Query
\* useState initial values: value undefined, loading true, firstLoad true, error undefined.

\* refetch's two early returns with the skip test left out.
refetchRunsNoSkip(s, c, w) ==
  w # NoWeb3 /\ c

\* refetch passes `if (skip) return` and `if (!web3 || !contract) return`.
refetchRuns(s, c, w) ==
  ~s /\ w # NoWeb3 /\ c

\* The attempt a refetch() invocation starts once past its early returns: the
\* closure's arguments, the canceller it was given, retries = 5, and the promise it returned.
NewAttempt(kind, a) ==
  [kind |-> kind, args |-> a, cancel |-> FALSE, retries |-> DefaultRetries,
   pc |-> "inflight", promise |-> "pending", submitted |-> 1]

\* refetch() putting firstLoad back to true when it starts.
firstLoadReset(fl) ==
  TRUE

\* firstLoad after refetch() has started: it calls setLoading(true) and nothing else.
firstLoadAtStart(fl) ==
  fl

\* The call built by call.request(params, callback): the attempt whose promise the
\* callback settles, and the arguments it carries.
Call(k, n, a) ==
  [att |-> k, seq |-> n, args |-> a]

\* Cleanup of the issue effect and of the refetch-signal effect: canceller.cancel = true.
\* Each effect run has one canceller; the attempts still running under an effect's
\* canceller are the unfinished attempts of that kind.
cleanupNone(atts) ==
  atts

cleanup(atts) ==
  [i \in DOMAIN atts |->
     IF atts[i].kind \in {"issue", "signal"} /\ atts[i].pc # "done"
     THEN [atts[i] EXCEPT !.cancel = TRUE]
     ELSE atts[i]]

\* The issue effect settles loading and firstLoad for a skipped call site: it returns
\* first when there is no contract, and only then looks at skip.
issueSkipSettles(s, c) ==
  c /\ s

\* The commit of a render with inputs (a, s, c) under web3 w: the cleanups of the
\* previous effects (atts already cleaned by the caller), then the issue effect:
\* nothing without a contract, setLoading(false) and setFirstLoad(false) under skip,
\* otherwise refetch({ canceller }) with a new canceller. The refetch-signal effect
\* only registers its listener.
IssueStarts(s, c, w) ==
  ~issueSkipSettles(s, c) /\ c /\ refetchRuns(s, c, w)

IssueEffect(atts, a, s, c, w) ==
  /\ IssueStarts(s, c, w) => Len(atts) < MaxAttempts
  /\ IF issueSkipSettles(s, c)
     THEN /\ loading' = FALSE
          /\ firstLoad' = FALSE
          /\ attempts' = atts
     ELSE IF IssueStarts(s, c, w)
     THEN /\ loading' = TRUE
          /\ firstLoad' = firstLoadAtStart(firstLoad)
          /\ attempts' = Append(atts, NewAttempt("issue", a))
     ELSE /\ UNCHANGED <<loading, firstLoad>>
          /\ attempts' = atts

\* The queue after the issue effect: request(call) of the started attempt.
IssueQueue(atts, a, s, c, w) ==
  IF IssueStarts(s, c, w) THEN add(QS, Call(Len(atts) + 1, 1, a)) ELSE QS

\* First render of the call site and its effects.
Mount(a, s, c) ==
  /\ mounted = "no"
  /\ mounted' = "yes"
  /\ args' = a /\ skip' = s /\ contract' = c
  /\ IssueEffect(attempts, a, s, c, web3)
  /\ Commit(IssueQueue(attempts, a, s, c, web3))
  /\ UNCHANGED <<value, error, batches, enqueued, web3>>
  /\ UNCHANGED mvars

\* A render that re-creates refetch: arguments, options, method, contract or skip
\* changed, or the context handed out a new `request` (the context object is rebuilt
\* when account, chainId or connected change, with the same inputs then).
Rerender(a, s, c) ==
  /\ mounted = "yes"
  /\ args' = a /\ skip' = s /\ contract' = c
  /\ IssueEffect(cleanup(attempts), a, s, c, web3)
  /\ Commit(IssueQueue(attempts, a, s, c, web3))
  /\ UNCHANGED <<mounted, value, error, batches, enqueued, web3>>
  /\ UNCHANGED mvars

\* Component unmount: the cleanups run, later state updates are ignored by React.
Unmount ==
  /\ mounted = "yes"
  /\ mounted' = "gone"
  /\ attempts' = cleanup(attempts)
  /\ UNCHANGED <<args, skip, contract, value, loading, firstLoad, error, web3>>
  /\ UNCHANGED qvars
  /\ UNCHANGED mvars

\* A 'refetch' event of the refetch controller: the handler registered by the
\* refetch-signal effect (only when there is a contract and skip is false) calls
\* refetch({ canceller }) with the effect's canceller.
RefetchSignal ==
  /\ mounted = "yes"
  /\ contract /\ ~skip
  /\ refetchRuns(skip, contract, web3)
  /\ Len(attempts) < MaxAttempts
  /\ loading' = TRUE
  /\ firstLoad' = firstLoadAtStart(firstLoad)
  /\ attempts' = Append(attempts, NewAttempt("signal", args))
  /\ Commit(add(QS, Call(Len(attempts) + 1, 1, args)))
  /\ UNCHANGED <<mounted, args, skip, contract, value, error, batches, enqueued, web3>>
  /\ UNCHANGED mvars

\* result.refetch() called by the component (or by useWeb3MultiQuery.refetch): no canceller.
ManualRefetch ==
  /\ mounted = "yes"
  /\ refetchRuns(skip, contract, web3)
  /\ Len(attempts) < MaxAttempts
  /\ loading' = TRUE
  /\ firstLoad' = firstLoadAtStart(firstLoad)
  /\ attempts' = Append(attempts, NewAttempt("manual", args))
  /\ Commit(add(QS, Call(Len(attempts) + 1, 1, args)))
  /\ UNCHANGED <<mounted, args, skip, contract, value, error, batches, enqueued, web3>>
  /\ UNCHANGED mvars

\* ------------------------------------------------------------ Web3Provider
\* The effect on [web3, batchRequestQueue]: hand web3.BatchRequest to the queue when
\* there is a web3.
providerEffect(s, w) ==
  IF w # NoWeb3 THEN setBatchRequest(s, w) ELSE s

\* reset() or connect() called setWeb3(w) (null, or a new Web3 instance) and the render
\* is committed: the call site's effects run first (refetch depends on web3), then the
\* provider's effect.
SetWeb3(w) ==
  /\ w # web3
  /\ web3' = w
  /\ IF mounted = "yes"
     THEN /\ IssueEffect(cleanup(attempts), args, skip, contract, w)
          /\ Commit(providerEffect(IssueQueue(attempts, args, skip, contract, w), w))
     ELSE /\ UNCHANGED <<loading, firstLoad, attempts>>
          /\ Commit(providerEffect(QS, w))
  /\ UNCHANGED <<mounted, args, skip, contract, value, error, batches, enqueued>>
  /\ UNCHANGED mvars

\* ------------------------------------------- completion of a dispatched call
\* batches without method j of batch i (a batch with no method left is gone).
RemoveAt(seq, j) ==
  [n \in 1..(Len(seq) - 1) |-> IF n < j THEN seq[n] ELSE seq[n + 1]]

Answered(i, j) ==
  IF Len(batches[i].methods) = 1
  THEN RemoveAt(batches, i)
  ELSE [batches EXCEPT ![i].methods = RemoveAt(@, j)]

\* `if (canceller?.cancel) return` with the test left out.
discardsNever(at) ==
  FALSE

\* `if (canceller?.cancel) return`, after the await and in the catch block.
discards(at) ==
  at.cancel

\* `if (retries > 0)` off by one.
retriesLeftOffByOne(at) ==
  at.retries > 1

\* `if (retries > 0)`: wait and call refetch again.
retriesLeft(at) ==
  at.retries > 0

\* The catch block leaving the last value in place.
valueKept(v) ==
  v

\* setValue(undefined) of the catch block, next to setError(err).
valueOnFailure(v) ==
  Undefined

\* The catch block rethrowing once the retries are used up.
finishRethrow(at, failed) ==
  [kind |-> at.kind, args |-> 1, cancel |-> FALSE, retries |-> 0,
   pc |-> "done", promise |-> IF failed THEN "rejected" ELSE "resolved", submitted |-> 0]

\* The async function returns (after the state writes, or at a canceller return): its
\* promise, and those of the refetch calls that returned it, resolve. Nothing else of
\* the invocation is left.
finish(at, failed) ==
  [kind |-> at.kind, args |-> 1, cancel |-> FALSE, retries |-> 0,
   pc |-> "done", promise |-> "resolved", submitted |-> 0]

\* The result the callback's resolve(value) hands to the awaiting refetch; the
\* executor answers a call with its arguments.
resultSwapped(d) ==
  IF d.args = MaxArgs THEN 1 ELSE d.args + 1

result(d) ==
  d.args

\* The executor calls the callback of method j of batch i with a value (ok) or with
\* an error, and the awaiting refetch continues. React ignores the state updates of
\* an unmounted component.
Respond(i, j, ok) ==
  /\ i \in 1..Len(batches)
  /\ j \in 1..Len(batches[i].methods)
  /\ LET d == batches[i].methods[j]
         k == d.att
     IN
     /\ k # NoAttempt
     /\ batches' = Answered(i, j)
     /\ LET at == attempts[k] IN
        IF discards(at)
        THEN /\ attempts' = [attempts EXCEPT ![k] = finish(at, FALSE)]
             /\ UNCHANGED <<value, loading, firstLoad, error>>
        ELSE IF ok
        THEN /\ attempts' = [attempts EXCEPT ![k] = finish(at, FALSE)]
             /\ IF mounted = "yes"
                THEN /\ error' = Undefined
                     /\ value' = result(d)
                     /\ loading' = FALSE
                     /\ firstLoad' = FALSE
                ELSE UNCHANGED <<value, loading, firstLoad, error>>
        ELSE IF retriesLeft(at)
        THEN /\ attempts' = [attempts EXCEPT ![k].pc = "waiting"]
             /\ UNCHANGED <<value, loading, firstLoad, error>>
        ELSE /\ attempts' = [attempts EXCEPT ![k] = finish(at, TRUE)]
             /\ IF mounted = "yes"
                THEN /\ error' = CallError
                     /\ value' = valueOnFailure(value)
                     /\ loading' = FALSE
                     /\ firstLoad' = FALSE
                ELSE UNCHANGED <<value, loading, firstLoad, error>>
  /\ UNCHANGED <<queue, BatchRequest, immediate, timers, enqueued, web3>>
  /\ UNCHANGED <<mounted, args, skip, contract>>
  /\ UNCHANGED mvars

\* The 1000 ms timer of the catch block fires: `return refetch({ canceller, retries:
\* retries - 1 })` runs the same closure again, whose early returns it passed before:
\* setLoading(true) and a new call through request().
RetryTimeout(k) ==
  /\ k \in 1..Len(attempts)
  /\ attempts[k].pc = "waiting"
  /\ attempts' = [attempts EXCEPT ![k].pc = "inflight",
                                  ![k].retries = @ - 1,
                                  ![k].submitted = @ + 1]
  /\ loading' = IF mounted = "yes" THEN TRUE ELSE loading
  /\ firstLoad' = IF mounted = "yes" THEN firstLoadAtStart(firstLoad) ELSE firstLoad
  /\ Commit(add(QS, Call(k, attempts[k].submitted + 1, attempts[k].args)))
  /\ UNCHANGED <<mounted, args, skip, contract, value, error, batches, enqueued, web3>>
  /\ UNCHANGED mvars

\* ------------------------------------------------------- useWeb3MultiQuery
\* JavaScript a || b on values that are an Error or undefined.
OrValue(a, b) ==
  IF a # Undefined THEN a ELSE b

RECURSIVE reduceErrorLast(_, _)
reduceErrorLast(qs, acc) ==
  IF qs = <<>> THEN acc
  ELSE reduceErrorLast(Tail(qs), OrValue(Head(qs).error, acc))

\* queries.reduce((a, b) => a || b.error, undefined)
RECURSIVE reduceError(_, _)
reduceError(qs, acc) ==
  IF qs = <<>> THEN acc
  ELSE reduceError(Tail(qs), OrValue(acc, Head(qs).error))

\* queries.reduce((a, b) => a || b.loading, false)
RECURSIVE reduceLoading(_, _)
reduceLoading(qs, acc) ==
  IF qs = <<>> THEN acc
  ELSE reduceLoading(Tail(qs), acc \/ Head(qs).loading)

\* queries.reduce((a, b) => a || b.firstLoad, false)
RECURSIVE reduceFirstLoad(_, _)
reduceFirstLoad(qs, acc) ==
  IF qs = <<>> THEN acc
  ELSE reduceFirstLoad(Tail(qs), acc \/ Head(qs).firstLoad)

useWeb3MultiQuery(qs) ==
  [data |-> [i \in 1..Len(qs) |-> qs[i].data],
   error |-> reduceError(qs, Undefined),
   loading |-> reduceLoading(qs, FALSE),
   firstLoad |-> reduceFirstLoad(qs, FALSE)]

\* What the i-th useWeb3Query call can hand to the combinator in one render: its own
\* data and its own Error object, if any.
QueryResults(i) ==
  [data : {Undefined, i}, error : {Undefined, i},
   loading : BOOLEAN, firstLoad : BOOLEAN]

InitialResult ==
  [data |-> Undefined, error |-> Undefined, loading |-> TRUE, firstLoad |-> TRUE]

\* A render in which constituent i has a new result.
MultiRender(i, r) ==
  /\ queries' = [queries EXCEPT ![i] = r]
  /\ multi' = useWeb3MultiQuery(queries')
  /\ UNCHANGED qvars
  /\ UNCHANGED cvars
  /\ UNCHANGED web3

\* ---------------------------------------------------------- specifications
Init ==
  /\ queue = <<>>
  /\ BatchRequest = NoBatchRequest
  /\ immediate = NoImmediate
  /\ timers = {}
  /\ batches = <<>>
  /\ enqueued = <<>>
  /\ web3 = NoWeb3
  /\ mounted = "no"
  /\ args = 1 /\ skip = FALSE /\ contract = FALSE
  /\ value = Undefined
  /\ loading = TRUE
  /\ firstLoad = TRUE
  /\ error = Undefined
  /\ attempts = <<>>
  /\ queries = [i \in 1..NQueries |-> InitialResult]
  /\ multi = useWeb3MultiQuery(queries)

\* One call site under a Web3Provider.
Next ==
  \/ \E a \in ArgVals, s \in BOOLEAN, c \in BOOLEAN : Mount(a, s, c)
  \/ \E a \in ArgVals, s \in BOOLEAN, c \in BOOLEAN : Rerender(a, s, c)
  \/ RefetchSignal
  \/ ManualRefetch
  \/ \E w \in {NoWeb3} \cup Web3s : SetWeb3(w)
  \/ \E h \in timers : Flush(h)
  \/ \E i \in 1..Len(batches), ok \in BOOLEAN :
       \E j \in 1..Len(batches[i].methods) : Respond(i, j, ok)
  \/ \E k \in 1..Len(attempts) : RetryTimeout(k)

Spec == Init /\ [][Next]_vars

\* The event loop runs every scheduled immediate and every expired timer, and every
\* dispatched call is answered: a flush that stays scheduled fires, a call that stays
\* unanswered gets its answer, a retry wait that has begun ends. Renders, refetch
\* signals and refetch() calls are under no obligation to happen.
SpecFair ==
  /\ Spec
  /\ WF_vars(\E h \in timers : Flush(h))
  /\ WF_vars(\E i \in 1..Len(batches), ok \in BOOLEAN :
               \E j \in 1..Len(batches[i].methods) : Respond(i, j, ok))
  /\ WF_vars(\E k \in 1..Len(attempts) : RetryTimeout(k))

\* The same with the call site's unmount.
NextLife ==
  \/ Next
  \/ Unmount

SpecLife == Init /\ [][NextLife]_vars

\* The queue under a Web3Provider, fed by components calling context.request.
NextQueue ==
  \/ \E a \in ArgVals : Request(a)
  \/ \E w \in {NoWeb3} \cup QueueWeb3s : SetWeb3(w)
  \/ \E h \in timers : Flush(h)

SpecQueue == Init /\ [][NextQueue]_vars

\* The event loop runs the immediates phase in every turn, whatever else is scheduled:
\* while a flush is scheduled (cleared and scheduled again included), one fires.
SpecQueueFair == SpecQueue /\ WF_vars(\E h \in timers : Flush(h))

\* The queue class on its own: the setter takes any value.
NextQueueApi ==
  \/ \E a \in ArgVals : Request(a)
  \/ \E v \in {NoBatchRequest} \cup QueueWeb3s : SetBatchRequest(v)
  \/ \E h \in timers : Flush(h)

SpecQueueApi == Init /\ [][NextQueueApi]_vars

\* The combinator over NQueries results.
NextMulti ==
  \E i \in 1..NQueries : \E r \in QueryResults(i) : MultiRender(i, r)

SpecMulti == Init /\ [][NextMulti]_vars

\* ------------------------------------------------------------------ claims
RECURSIVE Flatten(_)
Flatten(bs) ==
  IF bs = <<>> THEN <<>> ELSE Head(bs).methods \o Flatten(Tail(bs))

FlushFires == \E h \in timers : Flush(h)

\* C1: the adds made between two firings of the flush go out as exactly one batch, in
\* the order they were added: a firing flush with a non-empty queue executes one new
\* batch whose methods are the queue as it stood, built by the executor of that moment,
\* and empties the queue; a firing flush with an empty queue executes nothing; and add
\* itself executes nothing in its own turn.
C1_OneBatchInOrder ==
  [][ /\ FlushFires /\ queue # <<>> =>
           /\ Len(batches') = Len(batches) + 1
           /\ batches'[Len(batches')].methods = queue
           /\ batches'[Len(batches')].ex = BatchRequest
           /\ \A i \in 1..Len(batches) : batches'[i] = batches[i]
           /\ queue' = <<>>
      /\ FlushFires /\ queue = <<>> => batches' = batches
      /\ (\E a \in ArgVals : Request(a)) => batches' = batches /\ queue' = Append(queue, enqueued'[Len(enqueued')])
    ]_vars

\* C1 witness: a batch of several descriptors has been executed.
C1_Witness ==
  \E i \in 1..Len(batches) : Len(batches[i].methods) >= 2

\* C2: while the queue has no executor every descriptor added is still pending, no
\* batch was executed and no flush is scheduled; with an executor set and the scheduled
\* flush run, nothing is pending and every descriptor added has been dispatched.
C2_PendingUntilExecutor ==
  /\ BatchRequest = NoBatchRequest =>
       queue = enqueued /\ batches = <<>> /\ timers = {}
  /\ BatchRequest # NoBatchRequest /\ timers = {} =>
       queue = <<>> /\ Flatten(batches) = enqueued

\* C2 witness: three descriptors went out together in the first batch after the
\* executor arrived.
C2_Witness ==
  /\ BatchRequest # NoBatchRequest
  /\ timers = {}
  /\ Len(enqueued) >= 3
  /\ Len(batches) = 1
  /\ batches[1].methods = enqueued

\* C3: a call site rendered with skip = true has loading = false and firstLoad = false,
\* whatever its other inputs, and no call of it is added to the queue while skip is true.
C3_SkipSettlesAndNeverSubmits ==
  /\ [](mounted = "yes" /\ skip => ~loading /\ ~firstLoad)
  /\ [][mounted' = "yes" /\ skip' => Len(queue') <= Len(queue)]_vars

\* A refetch invocation ends in its terminal failure: its call failed, it was not
\* cancelled, and the catch block wrote the error.
TerminalFailure(k) ==
  /\ attempts[k].pc = "inflight"
  /\ attempts'[k].pc = "done"
  /\ ~attempts[k].cancel
  /\ error' = CallError

\* C4 as stated: an invocation whose call fails every time ends after exactly 5 calls,
\* with error set, data undefined, loading = false and firstLoad = false.
C4_FiveAttempts ==
  [][ \A k \in 1..Len(attempts) :
        TerminalFailure(k) =>
          /\ attempts[k].submitted = DefaultRetries
          /\ value' = Undefined /\ ~loading' /\ ~firstLoad'
    ]_vars

\* C4 amended: it ends after exactly 6 calls (the first and 5 retries), each retry
\* made when the wait after the previous failure is over, with error set, data
\* undefined, loading = false and firstLoad = false; no call follows.
C4_SixAttempts ==
  [][ \A k \in 1..Len(attempts) :
        /\ TerminalFailure(k) =>
             /\ attempts[k].submitted = DefaultRetries + 1
             /\ value' = Undefined /\ ~loading' /\ ~firstLoad'
        /\ attempts'[k].submitted > attempts[k].submitted =>
             /\ attempts[k].pc = "waiting"
             /\ attempts'[k].submitted = attempts[k].submitted + 1
        /\ attempts[k].pc = "done" => attempts'[k] = attempts[k]
    ]_vars

\* C4 witness: a call site that ended in the error of its last failed call.
C4_Witness ==
  /\ error = CallError /\ value = Undefined /\ ~loading /\ ~firstLoad
  /\ \E k \in 1..Len(attempts) : attempts[k].pc = "done"

\* An issue started by the issue effect has been superseded by a newer one.
Superseded(k) ==
  /\ attempts[k].kind = "issue"
  /\ \E n \in (k + 1)..Len(attempts) : attempts[n].kind = "issue"

\* C5: when the call of a superseded issue completes (with a value or an error, before
\* or after the newer issue's call), data, error, loading and firstLoad are left as
\* they were; and an issue that does write a value is the latest issue and writes the
\* value for the arguments the call site is rendered with.
C5_StaleResultDiscarded ==
  [][ \A k \in 1..Len(attempts) :
        /\ attempts[k].pc = "inflight" /\ attempts'[k].pc # "inflight" /\ Superseded(k) =>
             /\ UNCHANGED <<value, error, loading, firstLoad>>
             /\ attempts'[k].pc = "done"
        /\ /\ attempts[k].kind = "issue"
           /\ attempts[k].pc = "inflight" /\ attempts'[k].pc = "done"
           /\ ~UNCHANGED <<value, error, loading, firstLoad>>
           => /\ ~Superseded(k)
              /\ value' \in {Undefined, args}
    ]_vars

\* C5 witness: the older issue is over without having written anything while the
\* newer issue's call is still in flight.
C5_Witness ==
  /\ Len(attempts) = 2
  /\ attempts[1].kind = "issue" /\ attempts[1].pc = "done"
  /\ attempts[2].kind = "issue" /\ attempts[2].pc = "inflight"
  /\ value = Undefined /\ error = Undefined

\* C6: with an executor that answers each call with its own arguments, the invocation
\* whose call is answered is the one that made the call, and what it writes as data is
\* the arguments it made the call with, also when other calls with other arguments
\* went out in the same batch.
C6_OwnEcho ==
  [][ \A k \in 1..Len(attempts) :
        /\ attempts[k].pc = "inflight" /\ attempts'[k].pc = "done"
        /\ ~attempts[k].cancel /\ mounted = "yes" /\ error' = Undefined
        => value' = attempts[k].args
    ]_vars

\* C6 witness: two calls with different arguments were dispatched in one batch.
C6_Witness ==
  \E i \in 1..Len(batches) :
    /\ Len(batches[i].methods) >= 2
    /\ batches[i].methods[1].args # batches[i].methods[2].args
    /\ batches[i].methods[1].att # batches[i].methods[2].att

\* C7: the combined result is the reduction of the constituents: data holds each
\* constituent's data at its position, error is the error of the first constituent
\* that has one, loading and firstLoad are true iff some constituent's is.
HasError == {i \in 1..NQueries : queries[i].error # Undefined}

C7_PureReduction ==
  /\ DOMAIN multi.data = 1..NQueries
  /\ \A i \in 1..NQueries : multi.data[i] = queries[i].data
  /\ HasError = {} => multi.error = Undefined
  /\ \A i \in HasError :
       (\A k \in HasError : i <= k) => multi.error = queries[i].error
  /\ multi.loading = (\E i \in 1..NQueries : queries[i].loading)
  /\ multi.firstLoad = (\E i \in 1..NQueries : queries[i].firstLoad)

\* C7 witness: three settled constituents, the first without an error, the second and
\* the third each with its own: the combined error is the second's, loading is false.
C7_Witness ==
  /\ \A i \in 1..3 : ~queries[i].loading /\ ~queries[i].firstLoad
  /\ queries[1].error = Undefined
  /\ queries[2].error # Undefined
  /\ queries[3].error \notin {Undefined, queries[2].error}
  /\ multi.error = queries[2].error
  /\ ~multi.loading

\* C8: the promise of a refetch invocation is never rejected, and it is resolved
\* exactly when the invocation is over.
C8_RefetchNeverRejects ==
  \A k \in 1..Len(attempts) :
    /\ attempts[k].promise \in {"pending", "resolved"}
    /\ attempts[k].promise = "resolved" <=> attempts[k].pc = "done"

\* C8 witness: one invocation ended in its terminal failure, another was started by
\* refetch() and is over too.
C8_Witness ==
  /\ error = CallError
  /\ \E k \in 1..Len(attempts) : attempts[k].kind = "manual" /\ attempts[k].promise = "resolved"
  /\ \A k \in 1..Len(attempts) : attempts[k].promise = "resolved"

\* C9: at most one flush is scheduled.
C9_OneFlushScheduled ==
  Cardinality(timers) <= 1

\* C9 witness: a flush is scheduled with two descriptors pending, both added after
\* an earlier batch went out, so the second was added with a flush already scheduled.
C9_Witness ==
  /\ Cardinality(timers) = 1
  /\ Len(queue) >= 2
  /\ batches # <<>>

\* C10: a flush that fires while there is no executor executes no batch and leaves the
\* pending descriptors in the queue.
C10_FlushWithoutExecutorIsNoOp ==
  [][ FlushFires /\ BatchRequest = NoBatchRequest =>
        queue' = queue /\ batches' = batches ]_vars

\* C11: whatever the order of adds, executor swaps and flushes, the batches executed
\* so far followed by the pending queue are the descriptors added, each once and in the
\* order added; and a batch is built by the executor that is current when its flush fires.
C11_NothingLostAcrossSwaps ==
  /\ [](Flatten(batches) \o queue = enqueued)
  /\ [][FlushFires /\ queue # <<>> =>
          batches' = Append(batches, [ex |-> BatchRequest, methods |-> queue])]_vars

\* C11 witness: batches were built by two different executors, a descriptor is pending
\* under the second, and every descriptor added is accounted for.
C11_Witness ==
  /\ Len(batches) >= 2
  /\ batches[1].ex # batches[Len(batches)].ex
  /\ BatchRequest = batches[Len(batches)].ex
  /\ queue # <<>>
  /\ Len(enqueued) = Len(Flatten(batches)) + Len(queue)

\* C12: once an attempt's canceller is flipped, no later step of that attempt (a late
\* success, a late failure, the end of a retry wait) changes data, error, loading or
\* firstLoad.
C12_CancelledAttemptIsInert ==
  [][\A k \in 1..Len(attempts) :
       attempts[k].cancel /\ attempts'[k] # attempts[k] =>
         UNCHANGED <<value, error, loading, firstLoad>>]_vars

\* C13: a refetch signal to a call site that is not skipped (and has its contract and a
\* web3) starts a fresh attempt that submits one new descriptor with the current
\* arguments and sets loading; and no step ever takes firstLoad from false back to true.
C13_SignalRefetchesKeepsFirstLoad ==
  [][/\ ~firstLoad => ~firstLoad'
     /\ (/\ Len(attempts') = Len(attempts) + 1
         /\ attempts'[Len(attempts')].kind = "signal")
        => /\ ~skip
           /\ queue' = Append(queue, Call(Len(attempts'), 1, args))
           /\ timers' # {}
           /\ loading'
           /\ firstLoad' = firstLoad]_vars

\* C13 witness: after the first load has completed, a refetch signal has a call in flight.
C13_Witness ==
  /\ mounted = "yes"
  /\ ~firstLoad
  /\ loading
  /\ value # Undefined
  /\ \E k \in 1..Len(attempts) :
       attempts[k].kind = "signal" /\ attempts[k].pc = "inflight" /\ ~attempts[k].cancel

\* C14: data and error are never both set: a success clears the error, a terminal
\* failure clears the data.
C14_NotBothDataAndError ==
  ~(value # Undefined /\ error # Undefined)

\* C14 witness: two attempts have run to their end and the call site is settled with
\* the error of the last one and no data.
C14_Witness ==
  /\ mounted = "yes"
  /\ Len(attempts) = 2
  /\ \A k \in 1..Len(attempts) : attempts[k].pc = "done"
  /\ ~loading
  /\ error = CallError
  /\ value = Undefined

\* C15: while a call is in flight for an attempt that has not been cancelled (its
\* descriptor is submitted and unanswered, or it waits in the retry delay), loading is
\* true, also when several attempts overlap.
C15_LoadingWhileInFlight ==
  mounted = "yes" /\ (\E k \in 1..Len(attempts) :
                        attempts[k].pc # "done" /\ ~attempts[k].cancel)
    => loading

\* C16: when the provider disconnects (web3 is reset) while descriptors are pending in
\* the queue, each of them has its continuation fired (with a Disconnected error): none
\* stays pending, and the attempt that awaited it no longer waits for that call.
C16_DisconnectFailsPending ==
  [][web3 # NoWeb3 /\ web3' = NoWeb3 =>
       /\ queue' = <<>>
       /\ \A i \in 1..Len(queue) :
            queue[i].att # NoAttempt => attempts'[queue[i].att].pc # "inflight"]_vars

\* C17: an attempt started by the exposed refetch() carries a canceller like every other
\* attempt: if it is still running after the call site has re-rendered with changed
\* arguments, its late resolution is discarded and writes no state.
C17_ManualRefetchIsCancellable ==
  [][\A k \in 1..Len(attempts) :
       /\ attempts[k].kind = "manual"
       /\ attempts[k].pc = "inflight"
       /\ attempts[k].args # args
       /\ attempts'[k].pc = "done"
       => UNCHANGED <<value, error, loading, firstLoad>>]_vars

\* C18: a retry is cancellable: an attempt whose canceller was flipped while it waits in
\* the retry delay submits no further descriptor when the delay ends.
C18_CancelledRetrySubmitsNothing ==
  [][\A k \in 1..Len(attempts) :
       attempts[k].pc = "waiting" /\ attempts[k].cancel =>
         /\ attempts'[k].submitted <= attempts[k].submitted
         /\ \A i \in 1..Len(queue') : queue'[i].att = k => i <= Len(queue)]_vars

\* C19: when a refetch signal has started a fresh attempt while an earlier attempt was
\* still in flight, the earlier call's result never overwrites the newer one's: once the
\* newer attempt has ended, the end of the earlier one changes neither data nor error.
C19_OlderNeverOverwritesNewer ==
  [][\A k \in 1..Len(attempts) :
       /\ attempts[k].kind \in {"issue", "signal"}
       /\ attempts[k].pc = "inflight"
       /\ attempts'[k].pc = "done"
       /\ \E n \in (k + 1)..Len(attempts) :
            attempts[n].kind = "signal" /\ attempts[n].pc = "done"
       => UNCHANGED <<value, error>>]_vars

\* The n-th descriptor added is in a batch that was executed.
Dispatched(n) ==
  /\ n <= Len(enqueued)
  /\ \E i \in 1..Len(batches) : \E j \in 1..Len(batches[i].methods) :
       batches[i].methods[j] = enqueued[n]

Issuing ==
  /\ mounted = "yes"
  /\ ~skip
  /\ contract
  /\ web3 # NoWeb3
  /\ BatchRequest # NoBatchRequest

\* C21: a call site that stays mounted, not skipped, with its contract, a web3 and an
\* executor ends up with loading = false for good once every dispatched call has been
\* answered and renders, refetch signals and refetch() calls have stopped; also when an
\* earlier attempt was cancelled during its retry wait.
C21_EventuallyNotLoading ==
  <>[]Issuing => <>[](~loading)

====
